---- MODULE Spec2Model ----
(***************************************************************************)
(* Blackjack dealer (server.py: main, handle_client) and player            *)
(* (client.py: play_session) talking over TCP byte streams with the frames *)
(* of protocol.py.  Every connection c has a dealer worker, a player       *)
(* session and two byte streams (c2s, s2c).                                *)
(***************************************************************************)
EXTENDS Integers, Sequences, FiniteSets, TLC

(* ------------------------------ bounds -------------------------------- *)
\* the player asks for 1..MaxRounds rounds (and for WrapRounds, see below)
MaxRounds == 2
\* how many of the ShuffleTops orders random.shuffle may produce
NumShuffles == 7
\* frames a non-conforming peer may damage on one connection
MaxFaults == 1
\* fair runs: play_session is given 1..LiveRounds rounds
LiveRounds == 2

\* two-worker runs: how many of the ShuffleTops orders are used
ConcShuffles == 1

\* listen_for_offer called by itself: its timeout is one of 0..MaxTimeout
MaxTimeout == 2
\* datagrams one call of listen_for_offer may receive
MaxDatagrams == 2

\* the connections of a run; one-connection runs use connection 1 alone
Conns == {1, 2}

(* ------------------------- protocol.py constants ---------------------- *)
\* 0xABCDDCBA as struct "!I" lays it out (big-endian)
MAGIC_COOKIE == <<171, 205, 220, 186>>
MSG_OFFER == 2
MSG_REQUEST == 3
MSG_PAYLOAD == 4
RES_NOT_OVER == 0
RES_TIE == 1
RES_LOSS == 2
RES_WIN == 3
REQUEST_SIZE == 38
CLIENT_PAYLOAD_SIZE == 10
SERVER_PAYLOAD_SIZE == 9
OFFER_SIZE == 39
NAME_SIZE == 32
\* "Hittt" and "Stand" in ASCII
HITTT == <<72, 105, 116, 116, 116>>
STAND == <<83, 116, 97, 110, 100>>
\* None, among values that are all tuples (strings are their ASCII codes)
None == <<>>

(* ------------------------------ helpers ------------------------------- *)
Min(a, b) == IF a < b THEN a ELSE b
Max(a, b) == IF a > b THEN a ELSE b
Take(s, n) == SubSeq(s, 1, Min(n, Len(s)))
Drop(s, n) == SubSeq(s, n + 1, Len(s))
Zeros(n) == [i \in 1..n |-> 0]
Range(s) == {s[i] : i \in 1..Len(s)}

(* ------------------------------ protocol.py --------------------------- *)
\* faulty variant of FixedNameBytes: the last byte of the field is always 0
MutFixedNameBytesCString(b) ==
    Take(b, NAME_SIZE - 1) \o Zeros(NAME_SIZE - Len(Take(b, NAME_SIZE - 1)))
\* b[:32] + b"\x00" * (32 - len(b)); the name is given as its UTF-8 bytes
FixedNameBytes(b) == Take(b, NAME_SIZE) \o Zeros(NAME_SIZE - Len(Take(b, NAME_SIZE)))

\* a UTF-8 continuation byte
Cont(x) == x >= 128 /\ x <= 191
\* the length of the well-formed UTF-8 sequence at the head of b, 0 if none
Utf8Len(b) ==
    LET n == Len(b)
        b1 == b[1]
    IN IF b1 < 128 THEN 1
       ELSE IF b1 \in 194..223
       THEN IF n >= 2 /\ Cont(b[2]) THEN 2 ELSE 0
       ELSE IF b1 \in 224..239
       THEN IF /\ n >= 3 /\ Cont(b[2]) /\ Cont(b[3])
               /\ (b1 = 224 => b[2] >= 160)
               /\ (b1 = 237 => b[2] <= 159)
            THEN 3 ELSE 0
       ELSE IF b1 \in 240..244
       THEN IF /\ n >= 4 /\ Cont(b[2]) /\ Cont(b[3]) /\ Cont(b[4])
               /\ (b1 = 240 => b[2] >= 144)
               /\ (b1 = 244 => b[2] <= 143)
            THEN 4 ELSE 0
       ELSE 0
\* .decode("utf-8", errors="ignore"): the bytes that are no part of a
\* well-formed sequence are dropped; a string is given as its UTF-8 bytes
Utf8Ignore(b) ==
    LET n == Len(b)
        from[i \in 1..(n + 1)] ==
            IF i > n THEN <<>>
            ELSE LET k == Utf8Len(Drop(b, i - 1))
                 IN IF k = 0 THEN from[i + 1]
                    ELSE SubSeq(b, i, i + k - 1) \o from[i + k]
    IN from[1]

\* b.split(b"\x00", 1)[0].decode("utf-8", errors="ignore")
DecodeFixedName(b) ==
    LET zs == {i \in 1..Len(b) : b[i] = 0}
    IN IF zs = {} THEN Utf8Ignore(b)
       ELSE Utf8Ignore(SubSeq(b, 1, (CHOOSE i \in zs : \A j \in zs : i <= j) - 1))

\* "!I B H 32s"; struct.error (None here) if the port is no unsigned short
pack_offer(tcp_port, name) ==
    IF tcp_port \notin 0..65535 THEN None
    ELSE MAGIC_COOKIE \o <<MSG_OFFER, tcp_port \div 256, tcp_port % 256>>
             \o FixedNameBytes(name)

\* faulty variant of unpack_offer: the type byte is not looked at
MutUnpackOfferAnyType(data) ==
    IF Len(data) < OFFER_SIZE THEN None
    ELSE IF SubSeq(data, 1, 4) # MAGIC_COOKIE THEN None
    ELSE <<data[6] * 256 + data[7], DecodeFixedName(SubSeq(data, 8, 39))>>
unpack_offer(data) ==
    IF Len(data) < OFFER_SIZE THEN None
    ELSE IF SubSeq(data, 1, 4) # MAGIC_COOKIE \/ data[5] # MSG_OFFER THEN None
    ELSE <<data[6] * 256 + data[7], DecodeFixedName(SubSeq(data, 8, 39))>>

\* rounds = int(rounds) & 0xFF, then "!I B B 32s"
pack_request(n, name) ==
    MAGIC_COOKIE \o <<MSG_REQUEST, n % 256>> \o FixedNameBytes(name)

unpack_request(data) ==
    IF Len(data) < REQUEST_SIZE THEN None
    ELSE IF SubSeq(data, 1, 4) # MAGIC_COOKIE \/ data[5] # MSG_REQUEST THEN None
    ELSE <<data[6], DecodeFixedName(SubSeq(data, 7, 38))>>

\* decision is "Hittt" or "Stand" (anything else raises ValueError); "!I B 5s"
pack_client_decision(decision) ==
    IF decision \notin {HITTT, STAND} THEN None
    ELSE MAGIC_COOKIE \o <<MSG_PAYLOAD>> \o decision

\* d.decode("ascii", errors="ignore") drops the bytes >= 128
AsciiIgnore(d) == SelectSeq(d, LAMBDA x : x < 128)

\* faulty variant of unpack_client_decision: any token is let through
MutUnpackDecisionAnyToken(data) ==
    IF Len(data) < CLIENT_PAYLOAD_SIZE THEN None
    ELSE IF SubSeq(data, 1, 4) # MAGIC_COOKIE \/ data[5] # MSG_PAYLOAD THEN None
    ELSE AsciiIgnore(SubSeq(data, 6, 10))
unpack_client_decision(data) ==
    IF Len(data) < CLIENT_PAYLOAD_SIZE THEN None
    ELSE IF SubSeq(data, 1, 4) # MAGIC_COOKIE \/ data[5] # MSG_PAYLOAD THEN None
    ELSE LET s == AsciiIgnore(SubSeq(data, 6, 10))
         IN IF s \in {HITTT, STAND} THEN s ELSE None

\* faulty variant of pack_server_update: result and suit change places
MutPackUpdateSuitFirst(result, rank, suit) ==
    MAGIC_COOKIE \o <<MSG_PAYLOAD, suit % 256,
                      (rank % 65536) \div 256, rank % 256, result % 256>>
\* result & 0xFF, rank & 0xFFFF (two bytes, big-endian), suit & 0xFF
pack_server_update(result, rank, suit) ==
    MAGIC_COOKIE \o <<MSG_PAYLOAD, result % 256,
                      (rank % 65536) \div 256, rank % 256, suit % 256>>

unpack_server_update(data) ==
    IF Len(data) < SERVER_PAYLOAD_SIZE THEN None
    ELSE IF SubSeq(data, 1, 4) # MAGIC_COOKIE \/ data[5] # MSG_PAYLOAD THEN None
    ELSE <<data[6], data[7] * 256 + data[8], data[9]>>

\* faulty variant of card_value: the Ace counts nothing
MutCardValueAceZero(rank) == IF rank >= 11 THEN 10 ELSE IF rank = 1 THEN 0 ELSE rank
\* rank 1..13, 1 = Ace (valued 1)
card_value(rank) == IF rank >= 11 THEN 10 ELSE rank

(* ------------------------------ server.py ----------------------------- *)
NumRanks == 13
NumSuits == 4
\* [(rank, suit) for suit in range(4) for rank in range(1, 14)]
CanonDeck ==
    [i \in 1..(NumRanks * NumSuits) |->
        <<((i - 1) % NumRanks) + 1, (i - 1) \div NumRanks>>]

Reverse(s) == [i \in 1..Len(s) |-> s[Len(s) + 1 - i]]

\* Orders random.shuffle can leave the deck in, each given by the cards that
\* end up last in the list (deck.pop() takes the last one), in pop order:
\* player card 1, player card 2, dealer upcard, dealer holecard, later draws.
\* The other cards stay below them in the order of CanonDeck.  The last order
\* is one in which a round draws the most cards a round can draw (16: the
\* player hits up to 21 with eleven cards and stands, the dealer ends on five).
ShuffleTops == <<
    << <<5, 0>>, <<6, 1>>, <<10, 2>>, <<6, 3>>, <<4, 2>>, <<13, 1>> >>,
    << <<10, 0>>, <<9, 1>>, <<6, 2>>, <<8, 3>>, <<6, 1>> >>,
    << <<10, 0>>, <<5, 1>>, <<13, 3>>, <<7, 0>>, <<9, 2>> >>,
    << <<2, 0>>, <<3, 1>>, <<10, 2>>, <<8, 3>>, <<4, 2>>, <<9, 3>>, <<2, 2>> >>,
    << <<10, 3>>, <<10, 1>>, <<9, 2>>, <<7, 1>>, <<12, 0>> >>,
    << <<1, 0>>, <<11, 1>>, <<1, 3>>, <<6, 2>>, <<5, 0>>, <<9, 1>> >>,
    << <<10, 2>>, <<9, 0>>, <<10, 1>>, <<7, 3>>, <<1, 1>>, <<1, 2>> >>,
    << <<2, 3>>, <<3, 3>>, <<4, 0>>, <<5, 0>>, <<6, 0>>, <<7, 0>>, <<8, 2>>, <<3, 0>> >>,
    << <<13, 0>>, <<1, 1>>, <<12, 2>>, <<11, 3>>, <<10, 0>>, <<2, 1>> >>,
    << <<1, 0>>, <<1, 1>>, <<3, 3>>, <<4, 0>>,
       <<1, 2>>, <<1, 3>>, <<2, 0>>, <<2, 1>>, <<2, 2>>, <<2, 3>>,
       <<3, 0>>, <<3, 1>>, <<3, 2>>, <<4, 1>>, <<4, 2>>, <<4, 3>> >>
  >>

\* faulty variant of fresh_shuffled_deck: the Kings are left out
MutDeckNoKings(k) ==
    LET top == ShuffleTops[k]
    IN SelectSeq(CanonDeck, LAMBDA x : x \notin Range(top) /\ x[1] # NumRanks)
           \o Reverse(top)
\* faulty variant of fresh_shuffled_deck: thirteen cards only
MutDeckThirteen(k) ==
    LET top == ShuffleTops[k]
        d == SelectSeq(CanonDeck, LAMBDA x : x \notin Range(top)) \o Reverse(top)
    IN SubSeq(d, Len(d) - NumRanks + 1, Len(d))
\* fresh_shuffled_deck(), the k-th order
fresh_shuffled_deck(k) ==
    LET top == ShuffleTops[k]
    IN SelectSeq(CanonDeck, LAMBDA x : x \notin Range(top)) \o Reverse(top)

RECURSIVE sum_cards(_)
sum_cards(cards) ==
    IF cards = <<>> THEN 0
    ELSE card_value(cards[1][1]) + sum_cards(Tail(cards))

\* send_update: the frame for (result, card); card None packs rank 0, suit 0
UpdateFrame(result, card) ==
    IF card = None THEN pack_server_update(result, 0, 0)
    ELSE pack_server_update(result, card[1], card[2])

\* rounds = max(1, min(255, req.rounds))
ClampRounds(n) == Max(1, Min(255, n))

(* ------------------------------- state -------------------------------- *)
VARIABLES
    mode,        \* the run: "single" (one connection) | "conc" (two workers)
                 \*   | "deck" (one connection, one round, the longest draw)
                 \*   | "live" (one connection, play_session alone, fair)
                 \*   | "listen", "codec" (listen_for_offer, protocol.py alone)
    entry,       \* what player c runs: "main" | "play_session" | "listen_for_offer"
    mrounds,     \* client.py main: rounds
    lpc,         \* listen_for_offer: "idle" | "listening" | "returned" | "timed_out"
    ltimeout,    \* listen_for_offer: timeout
    usock,       \* listen_for_offer: s, "none" | "open" | "closed"
    waited,      \* how long the pending recvfrom has waited
    elapsed,     \* history: the time since listen_for_offer was called
    heard,       \* history: the datagrams recvfrom gave the pending call, as
                 \* <<sender ip, data>>; after the return, the accepted one
    lret,        \* listen_for_offer: the value returned, None before
    op,          \* protocol.py called by itself: the function called last
    arg,         \* its arguments (the frame's fields), None for an unpack
    enc,         \* the bytes packed, or the bytes given to the unpack
    dec,         \* what the unpack returned
    mainPc,      \* server.py main: "accepting" | "stopped" (the accept loop
                 \* has ended, tcp is closed) | "exited" (the process is gone)
    spc,         \* handle_client: where worker c stands
    ssock,       \* conn of worker c: "none" | "queued" | "open" | "closed"
    rounds,      \* handle_client: rounds
    round_idx,   \* handle_client: round_idx
    deck,        \* handle_client: deck
    player,      \* handle_client: player
    dealer,      \* handle_client: dealer (dealer_up, dealer_down first)
    cpc,         \* play_session: where the player of connection c stands
    csock,       \* play_session: sock, "none" | "open" | "closed"
    crounds,     \* play_session: rounds
    r,           \* play_session: r
    player_sum,  \* play_session: player_sum
    dealer_sum,  \* play_session: dealer_sum
    wins, losses, ties,   \* play_session: the counters
    cerr,        \* play_session: the error it raised, "none" if none
    csent,       \* history: the Decisions the player sent in the current round
    cread,       \* history: the Updates the player read in the current round
    c2s, s2c,    \* bytes in flight, player -> dealer and dealer -> player
    log,         \* history: the Updates the dealer sent in the current round
    decs,        \* history: the Decisions the dealer read in the current round
    terms,       \* history: terminal Updates the dealer sent on the connection
    results,     \* history: the result fields of these terminal Updates
    faults       \* history: frames damaged on the connection

srvVars == <<spc, ssock, rounds, round_idx, deck, player, dealer>>
cliVars == <<cpc, csock, crounds, r, player_sum, dealer_sum, wins, losses, ties,
             cerr, csent, cread>>
chistVars == <<cerr, csent, cread>>
sumVars == <<player_sum, dealer_sum>>
cntVars == <<wins, losses, ties>>
histVars == <<log, decs, terms, results, faults>>
discVars == <<lpc, ltimeout, usock, waited, elapsed, heard, lret>>
\* what no step of a session changes
codecVars == <<op, arg, enc, dec>>
runVars == <<mode, entry, mrounds, discVars, codecVars>>
vars == <<runVars, mainPc, srvVars, cliVars, c2s, s2c, histVars>>

\* --team default of client.py ("TeamClient")
TeamName == <<84, 101, 97, 109, 67, 108, 105, 101, 110, 116>>
\* a round count that does not fit the one-byte field
WrapRounds == 257
\* what prompt_rounds gives main (an integer in 1..255), and what
\* play_session called by itself is given; in two-worker runs each player
\* asks for a single round
RoundInputs(c) ==
    IF mode = "live" THEN 1..LiveRounds
    ELSE IF entry[c] = "play_session" THEN {WrapRounds}
    ELSE IF mode = "single" THEN 1..MaxRounds ELSE {1}
\* the shuffle orders worker c may deal from; a fair run deals the order of
\* the longest round in its one-round sessions, and in every session the
\* eighth order (several hits, a bust, several dealer draws)
Shuffles(c) ==
    IF mode = "single" THEN 1..NumShuffles
    ELSE IF mode = "deck" THEN {1, Len(ShuffleTops)}
    ELSE IF mode = "live"
         THEN IF rounds[c] = 1 THEN {8, Len(ShuffleTops)} ELSE {8}
    ELSE 1..ConcShuffles
\* the connections whose player connects
Live == IF mode = "conc" THEN Conns ELSE {1}
\* in two-worker runs only connection 1 meets interrupts and malformed frames
Quiet(c) == mode = "conc" /\ c # 1

InitState ==
    /\ mrounds = [c \in Conns |-> 0]
    /\ lpc = [c \in Conns |-> "idle"]
    /\ ltimeout = [c \in Conns |-> 0]
    /\ usock = [c \in Conns |-> "none"]
    /\ waited = [c \in Conns |-> 0]
    /\ elapsed = [c \in Conns |-> 0]
    /\ heard = [c \in Conns |-> <<>>]
    /\ lret = [c \in Conns |-> None]
    /\ op = "none"
    /\ arg = None
    /\ enc = <<>>
    /\ dec = None
    /\ mainPc = "accepting"
    /\ spc = [c \in Conns |-> "idle"]
    /\ ssock = [c \in Conns |-> "none"]
    /\ rounds = [c \in Conns |-> 0]
    /\ round_idx = [c \in Conns |-> 0]
    /\ deck = [c \in Conns |-> <<>>]
    /\ player = [c \in Conns |-> <<>>]
    /\ dealer = [c \in Conns |-> <<>>]
    /\ cpc = [c \in Conns |-> IF entry[c] = "main" THEN "prompt" ELSE "start"]
    /\ csock = [c \in Conns |-> "none"]
    /\ crounds \in {[c \in Conns |->
                       IF entry[c] = "play_session" /\ c \in Live THEN n ELSE 0] :
                      n \in RoundInputs(1)}
    /\ r = [c \in Conns |-> 0]
    /\ player_sum = [c \in Conns |-> 0]
    /\ dealer_sum = [c \in Conns |-> 0]
    /\ wins = [c \in Conns |-> 0]
    /\ losses = [c \in Conns |-> 0]
    /\ ties = [c \in Conns |-> 0]
    /\ cerr = [c \in Conns |-> "none"]
    /\ csent = [c \in Conns |-> <<>>]
    /\ cread = [c \in Conns |-> 0]
    /\ c2s = [c \in Conns |-> <<>>]
    /\ s2c = [c \in Conns |-> <<>>]
    /\ log = [c \in Conns |-> <<>>]
    /\ decs = [c \in Conns |-> <<>>]
    /\ terms = [c \in Conns |-> 0]
    /\ results = [c \in Conns |-> <<>>]
    /\ faults = [c \in Conns |-> 0]

\* one player: main, or play_session called by itself
Init ==
    /\ mode = "single"
    /\ \E e \in {"main", "play_session"} : entry = [c \in Conns |-> e]
    /\ InitState
\* two players, both in main
InitConc ==
    /\ mode = "conc"
    /\ entry = [c \in Conns |-> "main"]
    /\ InitState
\* one player in main, one round, the order that draws the most cards
InitDeck ==
    /\ mode = "deck"
    /\ entry = [c \in Conns |-> "main"]
    /\ InitState
\* one player, play_session called by itself with 1..LiveRounds rounds
InitLive ==
    /\ mode = "live"
    /\ entry = [c \in Conns |-> "play_session"]
    /\ InitState
\* listen_for_offer called by itself
InitListen ==
    /\ mode = "listen"
    /\ entry = [c \in Conns |-> "listen_for_offer"]
    /\ InitState
\* the functions of protocol.py called by themselves
InitCodec ==
    /\ mode = "codec"
    /\ entry = [c \in Conns |-> "protocol"]
    /\ InitState

(* --------------------------- server.py: main -------------------------- *)
\* conn, addr = tcp.accept(); threading.Thread(target=handle_client, ...).start()
Accept(c) ==
    /\ mainPc = "accepting"
    /\ ssock[c] = "queued"
    /\ ssock' = [ssock EXCEPT ![c] = "open"]
    /\ spc' = [spc EXCEPT ![c] = "read_req"]
    /\ UNCHANGED <<runVars, mainPc, rounds, round_idx, deck, player, dealer, cliVars,
                   c2s, s2c, histVars>>

\* lines 184-191: KeyboardInterrupt ends the accept loop, stop_evt is set and
\* tcp is closed; the connections nobody accepted go with the listening
\* socket, the workers run on
Shutdown ==
    /\ mainPc = "accepting"
    /\ mainPc' = "stopped"
    /\ ssock' = [c \in Conns |-> IF ssock[c] = "queued" THEN "closed" ELSE ssock[c]]
    /\ c2s' = [c \in Conns |-> IF ssock[c] = "queued" THEN <<>> ELSE c2s[c]]
    /\ UNCHANGED <<runVars, spc, rounds, round_idx, deck, player, dealer, cliVars, s2c,
                   histVars>>

\* main returns and the interpreter exits: the daemon workers still running
\* die with it and their sockets are closed
ServerExit ==
    /\ mainPc = "stopped"
    /\ mainPc' = "exited"
    /\ spc' = [c \in Conns |->
                 IF spc[c] \in {"idle", "done", "rejected", "bad_decision",
                                "conn_error", "crashed"}
                 THEN spc[c] ELSE "killed"]
    /\ ssock' = [c \in Conns |-> IF ssock[c] = "none" THEN "none" ELSE "closed"]
    /\ c2s' = [c \in Conns |-> <<>>]
    /\ UNCHANGED <<runVars, rounds, round_idx, deck, player, dealer, cliVars, s2c, histVars>>

(* ----------------------- server.py: handle_client --------------------- *)
\* faulty variant of dealer_up: the downcard is shown
MutDealerUpIsDown(c) == dealer[c][2]
\* lines 61-63: dealer = [dealer_up, dealer_down]
dealer_up(c) == dealer[c][1]
dealer_down(c) == dealer[c][2]

\* faulty variant of CloseConn: every open connection is closed
MutCloseConnAll(c, why) ==
    /\ spc' = [d \in Conns |-> IF ssock[d] = "open" THEN why ELSE spc[d]]
    /\ ssock' = [d \in Conns |-> IF ssock[d] = "open" THEN "closed" ELSE ssock[d]]
    /\ c2s' = [d \in Conns |-> IF ssock[d] = "open" THEN <<>> ELSE c2s[d]]
\* finally: conn.close(); what the worker had not read is dropped
CloseConn(c, why) ==
    /\ spc' = [spc EXCEPT ![c] = why]
    /\ ssock' = [ssock EXCEPT ![c] = "closed"]
    /\ c2s' = [c2s EXCEPT ![c] = <<>>]

\* read_exact(conn, n) returns once n bytes are there
CanRead(stream, n) == Len(stream) >= n
\* read_exact raises ConnectionError: the peer closed with fewer than n bytes left
ReadFails(stream, n, peer) == Len(stream) < n /\ peer = "closed"

\* sock.sendall(data) of send_update; the bytes go nowhere once the player's
\* socket is closed.  The frame is recorded as the dealer's decoded Update.
SendUpdate(c, result, card) ==
    LET data == UpdateFrame(result, card)
    IN /\ s2c' = [s2c EXCEPT ![c] = IF csock[c] = "closed" THEN @ ELSE @ \o data]
       /\ log' = [log EXCEPT ![c] = Append(@, unpack_server_update(data))]
       /\ terms' = [terms EXCEPT ![c] = IF result = RES_NOT_OVER THEN @ ELSE @ + 1]
       /\ results' = [results EXCEPT ![c] =
                         IF result = RES_NOT_OVER THEN @ ELSE Append(@, result)]

\* faulty variant of NextRound: range(1, rounds + 2)
MutNextRoundOneMore(c) ==
    IF round_idx[c] <= rounds[c]
    THEN /\ spc' = [spc EXCEPT ![c] = "deal"]
         /\ round_idx' = [round_idx EXCEPT ![c] = @ + 1]
    ELSE /\ spc' = [spc EXCEPT ![c] = "finish"]
         /\ UNCHANGED round_idx
\* the end of one pass of "for round_idx in range(1, rounds + 1)"
NextRound(c) ==
    IF round_idx[c] < rounds[c]
    THEN /\ spc' = [spc EXCEPT ![c] = "deal"]
         /\ round_idx' = [round_idx EXCEPT ![c] = @ + 1]
    ELSE /\ spc' = [spc EXCEPT ![c] = "finish"]
         /\ UNCHANGED round_idx

\* faulty variant of DealerDraws: the dealer still draws at 17
MutDealerDrawsAt17(d_sum) == d_sum <= 17
\* line 107: while sum_cards(dealer) < 17
DealerDraws(d_sum) == d_sum < 17

\* faulty variant of Bust: 21 already busts
MutBustAt21(sum) == sum >= 21
\* lines 93, 113: p_sum > 21, d_sum > 21
Bust(sum) == sum > 21

\* lines 47-54: read the Request, clamp the round count
HC_ReadRequest(c) ==
    /\ spc[c] = "read_req"
    /\ \/ /\ CanRead(c2s[c], REQUEST_SIZE)
          /\ LET req == unpack_request(Take(c2s[c], REQUEST_SIZE))
             IN IF req = None
                THEN /\ CloseConn(c, "rejected")
                     /\ UNCHANGED <<rounds, round_idx>>
                ELSE /\ rounds' = [rounds EXCEPT ![c] = ClampRounds(req[1])]
                     /\ round_idx' = [round_idx EXCEPT ![c] = 1]
                     /\ spc' = [spc EXCEPT ![c] = "deal"]
                     /\ c2s' = [c2s EXCEPT ![c] = Drop(@, REQUEST_SIZE)]
                     /\ UNCHANGED ssock
       \/ /\ ReadFails(c2s[c], REQUEST_SIZE, csock[c])
          /\ CloseConn(c, "conn_error")
          /\ UNCHANGED <<rounds, round_idx>>
    /\ UNCHANGED <<runVars, mainPc, deck, player, dealer, cliVars, s2c, histVars>>

\* lines 58-63: a fresh deck, two cards each
HC_Deal(c) ==
    /\ spc[c] = "deal"
    /\ \E k \in Shuffles(c) :
         LET d == fresh_shuffled_deck(k)
             n == Len(d)
         IN /\ player' = [player EXCEPT ![c] = <<d[n], d[n - 1]>>]
            /\ dealer' = [dealer EXCEPT ![c] = <<d[n - 2], d[n - 3]>>]
            /\ deck' = [deck EXCEPT ![c] = SubSeq(d, 1, n - 4)]
    /\ spc' = [spc EXCEPT ![c] = "send_p0"]
    /\ log' = [log EXCEPT ![c] = <<>>]
    /\ decs' = [decs EXCEPT ![c] = <<>>]
    /\ UNCHANGED <<runVars, mainPc, ssock, rounds, round_idx, cliVars, c2s, s2c, terms, results, faults>>

\* line 66: send_update(conn, P.RES_NOT_OVER, player[0])
HC_SendPlayer0(c) ==
    /\ spc[c] = "send_p0"
    /\ SendUpdate(c, RES_NOT_OVER, player[c][1])
    /\ spc' = [spc EXCEPT ![c] = "send_p1"]
    /\ UNCHANGED <<runVars, mainPc, ssock, rounds, round_idx, deck, player, dealer, cliVars,
                   c2s, decs, faults>>

\* line 67: send_update(conn, P.RES_NOT_OVER, player[1])
HC_SendPlayer1(c) ==
    /\ spc[c] = "send_p1"
    /\ SendUpdate(c, RES_NOT_OVER, player[c][2])
    /\ spc' = [spc EXCEPT ![c] = "send_up"]
    /\ UNCHANGED <<runVars, mainPc, ssock, rounds, round_idx, deck, player, dealer, cliVars,
                   c2s, decs, faults>>

\* line 68: send_update(conn, P.RES_NOT_OVER, dealer_up)
HC_SendDealerUp(c) ==
    /\ spc[c] = "send_up"
    /\ SendUpdate(c, RES_NOT_OVER, dealer_up(c))
    /\ spc' = [spc EXCEPT ![c] = "read_dec"]
    /\ UNCHANGED <<runVars, mainPc, ssock, rounds, round_idx, deck, player, dealer, cliVars,
                   c2s, decs, faults>>

\* lines 76-88: read one Decision; Stand ends the player turn, Hittt draws
HC_ReadDecision(c) ==
    /\ spc[c] = "read_dec"
    /\ \/ /\ CanRead(c2s[c], CLIENT_PAYLOAD_SIZE)
          /\ LET decision == unpack_client_decision(Take(c2s[c], CLIENT_PAYLOAD_SIZE))
             IN IF decision = None
                THEN /\ CloseConn(c, "bad_decision")
                     /\ UNCHANGED <<deck, player, decs>>
                ELSE IF decision = STAND
                THEN /\ spc' = [spc EXCEPT ![c] = "send_hole"]
                     /\ c2s' = [c2s EXCEPT ![c] = Drop(@, CLIENT_PAYLOAD_SIZE)]
                     /\ decs' = [decs EXCEPT ![c] = Append(@, decision)]
                     /\ UNCHANGED <<ssock, deck, player>>
                ELSE IF deck[c] = <<>>
                THEN \* deck.pop() raises IndexError, which only "finally" sees
                     /\ CloseConn(c, "crashed")
                     /\ UNCHANGED <<deck, player, decs>>
                ELSE /\ player' = [player EXCEPT ![c] = Append(@, deck[c][Len(deck[c])])]
                     /\ deck' = [deck EXCEPT ![c] = SubSeq(@, 1, Len(@) - 1)]
                     /\ spc' = [spc EXCEPT ![c] = "send_hit"]
                     /\ c2s' = [c2s EXCEPT ![c] = Drop(@, CLIENT_PAYLOAD_SIZE)]
                     /\ decs' = [decs EXCEPT ![c] = Append(@, decision)]
                     /\ UNCHANGED ssock
       \/ /\ ReadFails(c2s[c], CLIENT_PAYLOAD_SIZE, csock[c])
          /\ CloseConn(c, "conn_error")
          /\ UNCHANGED <<deck, player, decs>>
    /\ UNCHANGED <<runVars, mainPc, rounds, round_idx, dealer, cliVars, s2c, log, terms, results, faults>>

\* lines 89-95: send the drawn card, then test the player sum
HC_SendHit(c) ==
    /\ spc[c] = "send_hit"
    /\ SendUpdate(c, RES_NOT_OVER, player[c][Len(player[c])])
    /\ spc' = [spc EXCEPT ![c] =
                 IF Bust(sum_cards(player[c])) THEN "send_loss" ELSE "read_dec"]
    /\ UNCHANGED <<runVars, mainPc, ssock, rounds, round_idx, deck, player, dealer, cliVars,
                   c2s, decs, faults>>

\* lines 96-100: player bust, the terminal loss, next round
HC_SendBust(c) ==
    /\ spc[c] = "send_loss"
    /\ SendUpdate(c, RES_LOSS, None)
    /\ NextRound(c)
    /\ UNCHANGED <<runVars, mainPc, ssock, rounds, deck, player, dealer, cliVars,
                   c2s, decs, faults>>

\* line 103: reveal the downcard
HC_Reveal(c) ==
    /\ spc[c] = "send_hole"
    /\ SendUpdate(c, RES_NOT_OVER, dealer_down(c))
    /\ spc' = [spc EXCEPT ![c] = "dealer_loop"]
    /\ UNCHANGED <<runVars, mainPc, ssock, rounds, round_idx, deck, player, dealer, cliVars,
                   c2s, decs, faults>>

\* lines 107-109: while the dealer must draw: draw; else: resolve
HC_DealerLoop(c) ==
    /\ spc[c] = "dealer_loop"
    /\ IF DealerDraws(sum_cards(dealer[c]))
       THEN IF deck[c] = <<>>
            THEN /\ CloseConn(c, "crashed")
                 /\ UNCHANGED <<deck, dealer>>
            ELSE /\ dealer' = [dealer EXCEPT ![c] = Append(@, deck[c][Len(deck[c])])]
                 /\ deck' = [deck EXCEPT ![c] = SubSeq(@, 1, Len(@) - 1)]
                 /\ spc' = [spc EXCEPT ![c] = "send_dcard"]
                 /\ UNCHANGED <<ssock, c2s>>
       ELSE /\ spc' = [spc EXCEPT ![c] = "resolve"]
            /\ UNCHANGED <<ssock, c2s, deck, dealer>>
    /\ UNCHANGED <<runVars, mainPc, rounds, round_idx, player, cliVars, s2c, histVars>>

\* lines 110-113: send the dealer's card, then test the dealer sum
HC_SendDealerCard(c) ==
    /\ spc[c] = "send_dcard"
    /\ SendUpdate(c, RES_NOT_OVER, dealer[c][Len(dealer[c])])
    /\ spc' = [spc EXCEPT ![c] =
                 IF Bust(sum_cards(dealer[c])) THEN "send_dbust" ELSE "dealer_loop"]
    /\ UNCHANGED <<runVars, mainPc, ssock, rounds, round_idx, deck, player, dealer, cliVars,
                   c2s, decs, faults>>

\* lines 114-116: dealer bust, the terminal win, next round
HC_SendDealerBust(c) ==
    /\ spc[c] = "send_dbust"
    /\ SendUpdate(c, RES_WIN, None)
    /\ NextRound(c)
    /\ UNCHANGED <<runVars, mainPc, ssock, rounds, deck, player, dealer, cliVars,
                   c2s, decs, faults>>

\* faulty variant of Outcome: win and loss change places
MutOutcomeSwapped(p_sum, d_sum) ==
    IF d_sum > 21 THEN RES_WIN
    ELSE IF p_sum > d_sum THEN RES_LOSS
    ELSE IF p_sum < d_sum THEN RES_WIN
    ELSE RES_TIE
\* lines 119-134: the result once the dealer stands
Outcome(p_sum, d_sum) ==
    IF d_sum > 21 THEN RES_WIN
    ELSE IF p_sum > d_sum THEN RES_WIN
    ELSE IF p_sum < d_sum THEN RES_LOSS
    ELSE RES_TIE

HC_Resolve(c) ==
    /\ spc[c] = "resolve"
    /\ SendUpdate(c, Outcome(sum_cards(player[c]), sum_cards(dealer[c])), None)
    /\ NextRound(c)
    /\ UNCHANGED <<runVars, mainPc, ssock, rounds, deck, player, dealer, cliVars,
                   c2s, decs, faults>>

\* lines 136, 140-144: all rounds played, close
HC_Finish(c) ==
    /\ spc[c] = "finish"
    /\ CloseConn(c, "done")
    /\ UNCHANGED <<runVars, mainPc, rounds, round_idx, deck, player, dealer, cliVars,
                   s2c, histVars>>

SendPcs == {"send_p0", "send_p1", "send_up", "send_hit", "send_loss", "send_hole",
            "send_dcard", "send_dbust", "resolve"}

\* lines 138-144: sendall raises OSError because the player is gone
HC_SendError(c) ==
    /\ spc[c] \in SendPcs
    /\ csock[c] = "closed"
    /\ CloseConn(c, "conn_error")
    /\ UNCHANGED <<runVars, mainPc, rounds, round_idx, deck, player, dealer, cliVars,
                   s2c, histVars>>

(* ---------------------- client.py: play_session ----------------------- *)
\* lines 66-69: play_session makes the socket and connects; the connection
\* waits in the dealer's listen queue
PS_Connect(c) ==
    /\ cpc[c] = "start"
    /\ c \in Live
    /\ mainPc = "accepting"
    /\ csock' = [csock EXCEPT ![c] = "open"]
    /\ ssock' = [ssock EXCEPT ![c] = "queued"]
    /\ cpc' = [cpc EXCEPT ![c] = "send_req"]
    /\ UNCHANGED <<runVars, mainPc, spc, rounds, round_idx, deck, player, dealer, crounds, r,
                   sumVars, cntVars, chistVars, c2s, s2c, histVars>>

\* lines 68-69: nobody listens, connect raises ConnectionRefusedError; the
\* socket made on line 68 is left unclosed
PS_ConnectRefused(c) ==
    /\ cpc[c] = "start"
    /\ c \in Live
    /\ mainPc # "accepting"
    /\ cpc' = [cpc EXCEPT ![c] = "raised"]
    /\ cerr' = [cerr EXCEPT ![c] = "refused"]
    /\ csock' = [csock EXCEPT ![c] = "open"]
    /\ UNCHANGED <<runVars, mainPc, srvVars, crounds, r, sumVars, cntVars, csent, cread,
                   c2s, s2c, histVars>>

\* lines 70-72: sendall(pack_request(rounds, team_name)), then the first pass
\* of "for r in range(1, rounds + 1)", none if rounds < 1
PS_SendRequest(c) ==
    /\ cpc[c] = "send_req"
    /\ c2s' = [c2s EXCEPT ![c] = IF ssock[c] = "closed" THEN @
                                 ELSE @ \o pack_request(crounds[c], TeamName)]
    /\ IF crounds[c] >= 1
       THEN /\ cpc' = [cpc EXCEPT ![c] = "recv_p1"]
            /\ r' = [r EXCEPT ![c] = 1]
       ELSE /\ cpc' = [cpc EXCEPT ![c] = "close"]
            /\ UNCHANGED r
    /\ UNCHANGED <<runVars, mainPc, srvVars, csock, crounds, sumVars, cntVars, chistVars,
                   s2c, histVars>>

\* recv_update(): the parsed (result, rank, suit) of the next 9 bytes
CanRecv(c) ==
    /\ CanRead(s2c[c], SERVER_PAYLOAD_SIZE)
    /\ unpack_server_update(Take(s2c[c], SERVER_PAYLOAD_SIZE)) # None
Parsed(c) == unpack_server_update(Take(s2c[c], SERVER_PAYLOAD_SIZE))
Consume(c) == s2c' = [s2c EXCEPT ![c] = Drop(@, SERVER_PAYLOAD_SIZE)]
ReadOne(c) == cread' = [cread EXCEPT ![c] = @ + 1] /\ UNCHANGED <<cerr, csent>>

\* the end of one pass of "for r in range(1, rounds + 1)"; the next pass
\* starts with player_sum = dealer_sum = 0
NextPass(c) ==
    /\ IF r[c] < crounds[c]
       THEN /\ cpc' = [cpc EXCEPT ![c] = "recv_p1"]
            /\ r' = [r EXCEPT ![c] = @ + 1]
       ELSE /\ cpc' = [cpc EXCEPT ![c] = "close"]
            /\ UNCHANGED r
    /\ player_sum' = [player_sum EXCEPT ![c] = 0]
    /\ dealer_sum' = [dealer_sum EXCEPT ![c] = 0]
    /\ csent' = [csent EXCEPT ![c] = <<>>]
    /\ cread' = [cread EXCEPT ![c] = 0]

\* lines 122-130: after a bust, LOSS counts as a loss, TIE as a tie, the rest as a win
BustCounter(res) ==
    IF res = RES_LOSS THEN "losses" ELSE IF res = RES_TIE THEN "ties" ELSE "wins"
\* faulty variant of FinalCounter: the dealer's point of view
MutFinalCounterDealerView(res) ==
    IF res = RES_WIN THEN "losses" ELSE IF res = RES_LOSS THEN "wins" ELSE "ties"
\* lines 150-158: after the dealer phase, WIN is a win, LOSS a loss, the rest a tie
FinalCounter(res) ==
    IF res = RES_WIN THEN "wins" ELSE IF res = RES_LOSS THEN "losses" ELSE "ties"
\* wins += 1, losses += 1 or ties += 1
Count(c, counter) ==
    /\ wins' = [wins EXCEPT ![c] = IF counter = "wins" THEN @ + 1 ELSE @]
    /\ losses' = [losses EXCEPT ![c] = IF counter = "losses" THEN @ + 1 ELSE @]
    /\ ties' = [ties EXCEPT ![c] = IF counter = "ties" THEN @ + 1 ELSE @]

\* lines 89-91: first player card
PS_RecvPlayer1(c) ==
    /\ cpc[c] = "recv_p1"
    /\ CanRecv(c)
    /\ Consume(c)
    /\ ReadOne(c)
    /\ player_sum' = [player_sum EXCEPT ![c] = @ + card_value(Parsed(c)[2])]
    /\ cpc' = [cpc EXCEPT ![c] = "recv_p2"]
    /\ UNCHANGED <<runVars, mainPc, srvVars, csock, crounds, r, dealer_sum, cntVars, c2s, histVars>>

\* lines 93-95: second player card
PS_RecvPlayer2(c) ==
    /\ cpc[c] = "recv_p2"
    /\ CanRecv(c)
    /\ Consume(c)
    /\ ReadOne(c)
    /\ player_sum' = [player_sum EXCEPT ![c] = @ + card_value(Parsed(c)[2])]
    /\ cpc' = [cpc EXCEPT ![c] = "recv_up"]
    /\ UNCHANGED <<runVars, mainPc, srvVars, csock, crounds, r, dealer_sum, cntVars, c2s, histVars>>

\* lines 97-99: dealer upcard
PS_RecvDealerUp(c) ==
    /\ cpc[c] = "recv_up"
    /\ CanRecv(c)
    /\ Consume(c)
    /\ ReadOne(c)
    /\ dealer_sum' = [dealer_sum EXCEPT ![c] = @ + card_value(Parsed(c)[2])]
    /\ cpc' = [cpc EXCEPT ![c] = "decide"]
    /\ UNCHANGED <<runVars, mainPc, srvVars, csock, crounds, r, player_sum, cntVars, c2s, histVars>>

\* lines 104-109: prompt_decision() gives "Hittt" or "Stand"; send it
PS_SendDecision(c) ==
    /\ cpc[c] = "decide"
    /\ \E decision \in {HITTT, STAND} :
         /\ c2s' = [c2s EXCEPT ![c] = IF ssock[c] = "closed" THEN @
                                      ELSE @ \o pack_client_decision(decision)]
         /\ cpc' = [cpc EXCEPT ![c] = IF decision = STAND THEN "recv_hole" ELSE "recv_hit"]
         /\ csent' = [csent EXCEPT ![c] = Append(@, decision)]
    /\ UNCHANGED <<runVars, mainPc, srvVars, csock, crounds, r, sumVars, cntVars, cerr, cread,
                   s2c, histVars>>

\* faulty variant of PlayerBusted: 21 already counts as a bust
MutPlayerBustedAt21(sum) == sum >= 21
\* faulty variant of PlayerBusted: the player never sees its bust
MutPlayerBustedNever(sum) == FALSE
\* line 120: if player_sum > 21
PlayerBusted(sum) == sum > 21

\* lines 112-120: the card of a hit
PS_RecvHit(c) ==
    /\ cpc[c] = "recv_hit"
    /\ CanRecv(c)
    /\ Consume(c)
    /\ ReadOne(c)
    /\ player_sum' = [player_sum EXCEPT ![c] = @ + card_value(Parsed(c)[2])]
    /\ cpc' = [cpc EXCEPT ![c] =
                 IF PlayerBusted(player_sum[c] + card_value(Parsed(c)[2]))
                 THEN "recv_bust" ELSE "decide"]
    /\ UNCHANGED <<runVars, mainPc, srvVars, csock, crounds, r, dealer_sum, cntVars, c2s, histVars>>

\* lines 121-132 (and 135: player_sum > 21 skips the dealer phase)
PS_RecvBustResult(c) ==
    /\ cpc[c] = "recv_bust"
    /\ CanRecv(c)
    /\ Consume(c)
    /\ Count(c, BustCounter(Parsed(c)[1]))
    /\ NextPass(c)
    /\ UNCHANGED cerr
    /\ UNCHANGED <<runVars, mainPc, srvVars, csock, crounds, c2s, histVars>>

\* lines 135-139: the dealer reveals the downcard
PS_RecvReveal(c) ==
    /\ cpc[c] = "recv_hole"
    /\ CanRecv(c)
    /\ Consume(c)
    /\ ReadOne(c)
    /\ dealer_sum' = [dealer_sum EXCEPT ![c] = @ + card_value(Parsed(c)[2])]
    /\ cpc' = [cpc EXCEPT ![c] = "recv_dealer"]
    /\ UNCHANGED <<runVars, mainPc, srvVars, csock, crounds, r, player_sum, cntVars, c2s, histVars>>

\* lines 142-159: dealer cards until the terminal Update
PS_RecvDealerPhase(c) ==
    /\ cpc[c] = "recv_dealer"
    /\ CanRecv(c)
    /\ Consume(c)
    /\ IF Parsed(c)[1] = RES_NOT_OVER
       THEN /\ dealer_sum' = [dealer_sum EXCEPT ![c] = @ + card_value(Parsed(c)[2])]
            /\ ReadOne(c)
            /\ UNCHANGED <<cpc, r, player_sum, cntVars>>
       ELSE /\ Count(c, FinalCounter(Parsed(c)[1]))
            /\ NextPass(c)
            /\ UNCHANGED cerr
    /\ UNCHANGED <<runVars, mainPc, srvVars, csock, crounds, c2s, histVars>>

\* lines 161-162: sock.close(); return wins, losses, ties
PS_Close(c) ==
    /\ cpc[c] = "close"
    /\ cpc' = [cpc EXCEPT ![c] = "returned"]
    /\ csock' = [csock EXCEPT ![c] = "closed"]
    /\ s2c' = [s2c EXCEPT ![c] = <<>>]
    /\ UNCHANGED <<runVars, mainPc, srvVars, crounds, r, sumVars, cntVars, chistVars, c2s,
                   histVars>>

RecvPcs == {"recv_p1", "recv_p2", "recv_up", "recv_hit", "recv_bust", "recv_hole",
            "recv_dealer"}

\* lines 82-85: read_exact raises ConnectionError (the dealer closed), or the
\* frame does not parse and recv_update raises; play_session is left without
\* reaching sock.close()
PS_RecvError(c) ==
    /\ cpc[c] \in RecvPcs
    /\ \/ /\ ReadFails(s2c[c], SERVER_PAYLOAD_SIZE, ssock[c])
          /\ cerr' = [cerr EXCEPT ![c] = "peer_closed"]
          \* recv had taken the bytes that were there
          /\ s2c' = [s2c EXCEPT ![c] = <<>>]
       \/ /\ CanRead(s2c[c], SERVER_PAYLOAD_SIZE)
          /\ unpack_server_update(Take(s2c[c], SERVER_PAYLOAD_SIZE)) = None
          /\ cerr' = [cerr EXCEPT ![c] = "invalid"]
          /\ Consume(c)
    /\ cpc' = [cpc EXCEPT ![c] = "raised"]
    /\ UNCHANGED <<runVars, mainPc, srvVars, csock, crounds, r, sumVars, cntVars, csent, cread,
                   c2s, histVars>>

\* lines 70, 105: sendall raises OSError because the dealer is gone
PS_SendError(c) ==
    /\ cpc[c] \in {"send_req", "decide"}
    /\ ssock[c] = "closed"
    /\ cpc' = [cpc EXCEPT ![c] = "raised"]
    /\ cerr' = [cerr EXCEPT ![c] = "send_failed"]
    /\ UNCHANGED <<runVars, mainPc, srvVars, csock, crounds, r, sumVars, cntVars, csent, cread,
                   c2s, s2c, histVars>>

(* -------------------------- client.py: main --------------------------- *)
\* lines 175-177: play_session returned, the summary is printed
Main_Summary(c) ==
    /\ cpc[c] = "returned"
    /\ entry[c] = "main"
    /\ cpc' = [cpc EXCEPT ![c] = "relisten"]
    /\ UNCHANGED <<runVars, mainPc, srvVars, csock, crounds, r, sumVars, cntVars, chistVars,
                   c2s, s2c, histVars>>

\* lines 178-179: the session error is caught and printed
Main_Except(c) ==
    /\ cpc[c] = "raised"
    /\ entry[c] = "main"
    /\ cpc' = [cpc EXCEPT ![c] = "relisten"]
    /\ UNCHANGED <<runVars, mainPc, srvVars, csock, crounds, r, sumVars, cntVars, chistVars,
                   c2s, s2c, histVars>>

\* the socket play_session left open is closed when the runtime frees it
SockFreed(c) ==
    /\ cpc[c] = "relisten"
    /\ csock[c] = "open"
    /\ csock' = [csock EXCEPT ![c] = "closed"]
    /\ s2c' = [s2c EXCEPT ![c] = <<>>]
    /\ UNCHANGED <<runVars, mainPc, srvVars, cpc, crounds, r, sumVars, cntVars, chistVars,
                   c2s, histVars>>

\* the player process is interrupted (it "runs until interrupted")
PlayerInterrupt(c) ==
    /\ cpc[c] \in RecvPcs \cup {"start", "send_req", "decide", "close", "prompt", "listen",
                               "relisten"}
    /\ c \in Live
    /\ ~Quiet(c)
    /\ cpc' = [cpc EXCEPT ![c] = "interrupted"]
    /\ csock' = [csock EXCEPT ![c] = IF @ = "none" THEN @ ELSE "closed"]
    /\ usock' = [usock EXCEPT ![c] = IF @ = "none" THEN @ ELSE "closed"]
    /\ s2c' = [s2c EXCEPT ![c] = <<>>]
    /\ UNCHANGED <<mode, entry, mrounds, lpc, ltimeout, waited, elapsed, heard, lret,
                   codecVars, mainPc, srvVars, crounds, r, sumVars, cntVars, chistVars, c2s,
                   histVars>>

(* ----------------------- non-conforming peers ------------------------- *)
\* The frame at the head of a stream arrives malformed: its magic cookie or
\* its type byte is wrong, or (a Decision) its token is not canonical.
SetByte(stream, i, b) == [stream EXCEPT ![i] = b]

BadFrameToDealer(c) ==
    /\ faults[c] < MaxFaults
    /\ ~Quiet(c)
    /\ ssock[c] \in {"queued", "open"}
    /\ Len(c2s[c]) >= CLIENT_PAYLOAD_SIZE
    /\ \/ c2s' = [c2s EXCEPT ![c] = SetByte(@, 1, 0)]
       \/ c2s' = [c2s EXCEPT ![c] = SetByte(@, 5, MSG_OFFER)]
       \/ /\ spc[c] \notin {"idle", "read_req"}
          /\ c2s' = [c2s EXCEPT ![c] = SetByte(@, 6, 104)]
    /\ faults' = [faults EXCEPT ![c] = @ + 1]
    /\ UNCHANGED <<runVars, mainPc, srvVars, cliVars, s2c, log, decs, terms, results>>

BadFrameToPlayer(c) ==
    /\ faults[c] < MaxFaults
    /\ ~Quiet(c)
    /\ csock[c] = "open"
    /\ Len(s2c[c]) >= SERVER_PAYLOAD_SIZE
    /\ \/ s2c' = [s2c EXCEPT ![c] = SetByte(@, 1, 0)]
       \/ s2c' = [s2c EXCEPT ![c] = SetByte(@, 5, MSG_OFFER)]
    /\ faults' = [faults EXCEPT ![c] = @ + 1]
    /\ UNCHANGED <<runVars, mainPc, srvVars, cliVars, c2s, log, decs, terms, results>>

(* ----------------- client.py: main, listen_for_offer ------------------ *)
\* line 171: prompt_rounds() gives an integer in 1..255, whatever the worker
\* of the player's last connection is doing.  From here on connection c is
\* the connection of this pass: its record (both sockets, both byte streams,
\* what the worker kept and what was observed of it) starts empty, and on
\* the first pass there is nothing to clear.  A worker of the last pass that
\* has not closed yet is not followed beyond the answer; its steps depend on
\* its own record and on the closed socket of its peer only, not on the
\* answer, so each step it has left is also taken before the answer in
\* another behaviour (Main_Loop leaves the worker running).
Main_PromptRounds(c) ==
    /\ cpc[c] = "prompt"
    /\ entry[c] = "main"
    /\ c \in Live
    /\ \E n \in RoundInputs(c) : mrounds' = [mrounds EXCEPT ![c] = n]
    /\ cpc' = [cpc EXCEPT ![c] = "listen"]
    /\ csock' = [csock EXCEPT ![c] = "none"]
    /\ spc' = [spc EXCEPT ![c] = "idle"]
    /\ ssock' = [ssock EXCEPT ![c] = "none"]
    /\ rounds' = [rounds EXCEPT ![c] = 0]
    /\ round_idx' = [round_idx EXCEPT ![c] = 0]
    /\ deck' = [deck EXCEPT ![c] = <<>>]
    /\ player' = [player EXCEPT ![c] = <<>>]
    /\ dealer' = [dealer EXCEPT ![c] = <<>>]
    /\ c2s' = [c2s EXCEPT ![c] = <<>>]
    /\ s2c' = [s2c EXCEPT ![c] = <<>>]
    /\ log' = [log EXCEPT ![c] = <<>>]
    /\ decs' = [decs EXCEPT ![c] = <<>>]
    /\ terms' = [terms EXCEPT ![c] = 0]
    /\ results' = [results EXCEPT ![c] = <<>>]
    /\ faults' = [faults EXCEPT ![c] = 0]
    /\ UNCHANGED <<mode, entry, discVars, codecVars, mainPc, crounds, r, sumVars,
                   cntVars, chistVars>>

\* lines 180-181, 170: "Returning to listen for offers...", sleep, the next
\* pass of "while True".  Only the player's side moves: the locals of the
\* play_session call that has returned are gone, and so is the UDP socket of
\* the last listen_for_offer call.  The player's TCP socket of the last pass
\* stays closed, and nothing of the dealer is touched: a worker that has not
\* finished yet runs on against the closed connection to "Finished" and
\* conn.close() (server.py lines 136-144).
Main_Loop(c) ==
    /\ cpc[c] = "relisten"
    /\ csock[c] \in {"none", "closed"}
    /\ cpc' = [cpc EXCEPT ![c] = "prompt"]
    /\ mrounds' = [mrounds EXCEPT ![c] = 0]
    /\ lpc' = [lpc EXCEPT ![c] = "idle"]
    /\ ltimeout' = [ltimeout EXCEPT ![c] = 0]
    /\ usock' = [usock EXCEPT ![c] = "none"]
    /\ heard' = [heard EXCEPT ![c] = <<>>]
    /\ lret' = [lret EXCEPT ![c] = None]
    /\ crounds' = [crounds EXCEPT ![c] = 0]
    /\ r' = [r EXCEPT ![c] = 0]
    /\ player_sum' = [player_sum EXCEPT ![c] = 0]
    /\ dealer_sum' = [dealer_sum EXCEPT ![c] = 0]
    /\ wins' = [wins EXCEPT ![c] = 0]
    /\ losses' = [losses EXCEPT ![c] = 0]
    /\ ties' = [ties EXCEPT ![c] = 0]
    /\ cerr' = [cerr EXCEPT ![c] = "none"]
    /\ csent' = [csent EXCEPT ![c] = <<>>]
    /\ cread' = [cread EXCEPT ![c] = 0]
    /\ UNCHANGED <<mode, entry, waited, elapsed, codecVars, mainPc, srvVars, csock,
                   c2s, s2c, histVars>>

\* the timeout main passes to listen_for_offer (line 172)
OFFER_WAIT == 60

\* lines 47-52: the UDP socket is made and bound; settimeout if timeout > 0
StartListening(c, timeout) ==
    /\ lpc' = [lpc EXCEPT ![c] = "listening"]
    /\ ltimeout' = [ltimeout EXCEPT ![c] = timeout]
    /\ usock' = [usock EXCEPT ![c] = "open"]
    /\ waited' = [waited EXCEPT ![c] = 0]
    /\ elapsed' = [elapsed EXCEPT ![c] = 0]
    /\ heard' = [heard EXCEPT ![c] = <<>>]
    /\ lret' = [lret EXCEPT ![c] = None]

\* line 172: listen_for_offer(args.udp_port, 60)
Main_Listen(c) ==
    /\ cpc[c] = "listen"
    /\ lpc[c] # "listening"
    /\ StartListening(c, OFFER_WAIT)
    /\ UNCHANGED <<mode, entry, mrounds, codecVars, mainPc, srvVars, cliVars, c2s, s2c,
                   histVars>>

\* listen_for_offer(udp_port, timeout) called by itself
LO_Call(c) ==
    /\ entry[c] = "listen_for_offer"
    /\ c \in Live
    /\ lpc[c] = "idle"
    /\ \E timeout \in 0..MaxTimeout : StartListening(c, timeout)
    /\ UNCHANGED <<mode, entry, mrounds, codecVars, mainPc, srvVars, cliVars, c2s, s2c,
                   histVars>>

\* --team default of server.py ("TeamServer")
ServerTeam == <<84, 101, 97, 109, 83, 101, 114, 118, 101, 114>>
DealerIp == <<10, 0, 0, 1>>
OtherIp == <<10, 0, 0, 2>>
\* udp_broadcaster: msg = P.pack_offer(tcp_port, team_name), sent every second
\* while the dealer runs
DealerOffer == pack_offer(40000, ServerTeam)
\* a name that fills the field
Name32 == [i \in 1..NAME_SIZE |-> 65 + (i % 26)]
\* Offers: the dealer's, one with port 0 and an empty name, one with the
\* largest port, a full name and bytes after the frame
SampleOffers ==
    {DealerOffer, pack_offer(0, <<>>), pack_offer(65535, Name32) \o <<1, 2, 3>>}
\* no Offers: nothing, a byte short, a wrong cookie, a wrong type, a Request
SampleJunk ==
    {<<>>, Take(DealerOffer, OFFER_SIZE - 1), SetByte(DealerOffer, 1, 0),
     SetByte(DealerOffer, 5, MSG_REQUEST), pack_request(1, TeamName) \o <<0>>}
\* the datagrams that may reach the player's UDP port, as <<sender ip, data>>
Arrivals(c) ==
    IF mode = "listen"
    THEN {DealerIp, OtherIp} \X (SampleOffers \cup SampleJunk)
    ELSE (IF mainPc = "accepting" THEN {<<DealerIp, DealerOffer>>} ELSE {})
             \cup {<<OtherIp, <<>>>>}

\* time is watched in steps of half the timeout (of 1 without a timeout)
Pace(timeout) == IF timeout = 0 THEN 1 ELSE (timeout + 1) \div 2
\* the history stops counting once the time is past the timeouts in question
Horizon(timeout) == IF timeout = 0 THEN MaxTimeout + 1 ELSE timeout + Pace(timeout)
\* s.recvfrom(2048) is pending
Listening(c) == lpc[c] = "listening" /\ cpc[c] # "interrupted"

\* time passes while recvfrom blocks, up to the socket's timeout
Tick(c) ==
    /\ Listening(c)
    /\ IF ltimeout[c] = 0 THEN elapsed[c] < Horizon(0) ELSE waited[c] < ltimeout[c]
    /\ LET d == IF ltimeout[c] = 0 THEN 1
                ELSE Min(Pace(ltimeout[c]), ltimeout[c] - waited[c])
       IN /\ waited' = [waited EXCEPT ![c] = IF ltimeout[c] = 0 THEN 0 ELSE @ + d]
          /\ elapsed' = [elapsed EXCEPT ![c] = Min(@ + d, Horizon(ltimeout[c]))]
    /\ UNCHANGED <<mode, entry, mrounds, lpc, ltimeout, usock, heard, lret,
                   codecVars, mainPc, srvVars, cliVars, c2s, s2c, histVars>>

\* lines 54-59: recvfrom gives a datagram; if it unpacks as an Offer the socket
\* is closed and (ip, tcp_port, server_name) returned (to line 172 of main),
\* else the loop calls recvfrom again, which waits afresh
LO_Recv(c) ==
    /\ Listening(c)
    /\ \E dg \in Arrivals(c) :
         LET offer == unpack_offer(dg[2])
         IN IF offer # None
            THEN /\ lpc' = [lpc EXCEPT ![c] = "returned"]
                 /\ usock' = [usock EXCEPT ![c] = "closed"]
                 /\ lret' = [lret EXCEPT ![c] = <<dg[1], offer[1], offer[2]>>]
                 /\ heard' = [heard EXCEPT ![c] = <<dg>>]
                 /\ waited' = [waited EXCEPT ![c] = 0]
                 /\ elapsed' = [elapsed EXCEPT ![c] = 0]
                 \* lines 173-174: main calls play_session(ip, port, team, rounds)
                 /\ cpc' = [cpc EXCEPT ![c] = IF entry[c] = "main" THEN "start" ELSE @]
                 /\ crounds' = [crounds EXCEPT ![c] =
                                  IF entry[c] = "main" THEN mrounds[c] ELSE @]
            ELSE /\ Len(heard[c]) < MaxDatagrams
                 /\ heard' = [heard EXCEPT ![c] = Append(@, dg)]
                 /\ waited' = [waited EXCEPT ![c] = 0]
                 /\ UNCHANGED <<lpc, usock, lret, elapsed, cpc, crounds>>
    /\ UNCHANGED <<mode, entry, mrounds, ltimeout, codecVars, mainPc, srvVars, csock, r,
                   sumVars, cntVars, chistVars, c2s, s2c, histVars>>

\* line 54: recvfrom raises socket.timeout.  listen_for_offer does not catch
\* it and line 172 of main is outside the try: main ends with the traceback.
LO_Timeout(c) ==
    /\ Listening(c)
    /\ ltimeout[c] > 0
    /\ waited[c] >= ltimeout[c]
    /\ lpc' = [lpc EXCEPT ![c] = "timed_out"]
    /\ IF entry[c] = "main"
       THEN /\ cpc' = [cpc EXCEPT ![c] = "terminated"]
            /\ usock' = [usock EXCEPT ![c] = "closed"]
       ELSE UNCHANGED <<cpc, usock>>
    /\ UNCHANGED <<mode, entry, mrounds, ltimeout, waited, elapsed, heard, lret,
                   codecVars, mainPc, srvVars, csock, crounds, r, sumVars, cntVars, chistVars,
                   c2s, s2c, histVars>>

(* ----------------------- protocol.py by itself ------------------------ *)
\* what is left alone when a function of protocol.py is called by itself
sessionVars ==
    <<mode, entry, mrounds, discVars, mainPc, srvVars, cliVars, c2s, s2c, histVars>>

\* names as UTF-8 bytes, none longer than the field: none, the two --team
\* defaults, one that fills the field, 16 two-byte letters, two with a NUL
NameAccents == [i \in 1..NAME_SIZE |-> IF i % 2 = 1 THEN 195 ELSE 169]
SampleNames ==
    {<<>>, TeamName, ServerTeam, Name32, NameAccents, <<65, 0, 66>>, <<65, 0>>}
SamplePorts == {0, 1, 255, 256, 40000, 65535}
SampleRounds == {1, 2, 127, 128, 255}

\* the valid frames, one of each kind
FrameOf(kind) ==
    IF kind = "offer" THEN pack_offer(40000, ServerTeam)
    ELSE IF kind = "request" THEN pack_request(3, TeamName)
    ELSE IF kind = "decision" THEN pack_client_decision(HITTT)
    ELSE pack_server_update(RES_WIN, 12, 3)
\* buffers for an unpack: the prefixes of a valid frame (all too short but the
\* last), the frame with one cookie byte changed, with every other type byte,
\* and with bytes after it
SampleBuffers(kind) ==
    LET f == FrameOf(kind)
    IN {Take(f, n) : n \in 0..Len(f)}
         \cup {SetByte(f, i, (f[i] + 1) % 256) : i \in 1..4}
         \cup {SetByte(f, 5, t) : t \in 0..5}
         \cup {f \o <<7, 7>>}
\* 5-byte tokens: the two canonical ones, other case, other letters, a byte
\* that is not ASCII, a NUL
SampleTokens ==
    {HITTT, STAND,
     <<104, 105, 116, 116, 116>>, <<72, 73, 84, 84, 84>>, <<115, 116, 97, 110, 100>>,
     <<72, 105, 116, 116, 32>>, <<72, 105, 116, 0, 0>>, <<83, 116, 97, 110, 228>>,
     <<200, 72, 105, 116, 116>>, <<0, 0, 0, 0, 0>>}

\* unpack_offer(pack_offer(tcp_port, server_name))
Codec_Offer ==
    /\ \E tcp_port \in SamplePorts, name \in SampleNames :
         /\ op' = "offer"
         /\ arg' = <<tcp_port, name>>
         /\ enc' = pack_offer(tcp_port, name)
         /\ dec' = unpack_offer(pack_offer(tcp_port, name))
    /\ UNCHANGED sessionVars

\* unpack_request(pack_request(rounds, client_name))
Codec_Request ==
    /\ \E n \in SampleRounds, name \in SampleNames :
         /\ op' = "request"
         /\ arg' = <<n, name>>
         /\ enc' = pack_request(n, name)
         /\ dec' = unpack_request(pack_request(n, name))
    /\ UNCHANGED sessionVars

\* unpack_client_decision(pack_client_decision(decision))
Codec_Decision ==
    /\ \E decision \in {HITTT, STAND} :
         /\ op' = "decision"
         /\ arg' = decision
         /\ enc' = pack_client_decision(decision)
         /\ dec' = unpack_client_decision(pack_client_decision(decision))
    /\ UNCHANGED sessionVars

\* unpack_server_update(pack_server_update(result, rank, suit))
Codec_Update ==
    /\ \E result \in 0..3, rank \in 0..NumRanks, suit \in 0..(NumSuits - 1) :
         /\ op' = "update"
         /\ arg' = <<result, rank, suit>>
         /\ enc' = pack_server_update(result, rank, suit)
         /\ dec' = unpack_server_update(pack_server_update(result, rank, suit))
    /\ UNCHANGED sessionVars

\* unpack_offer(data)
Unpack_Offer ==
    /\ \E data \in SampleBuffers("offer") :
         /\ enc' = data
         /\ dec' = unpack_offer(data)
    /\ op' = "unpack_offer"
    /\ arg' = None
    /\ UNCHANGED sessionVars

\* unpack_request(data)
Unpack_Request ==
    /\ \E data \in SampleBuffers("request") :
         /\ enc' = data
         /\ dec' = unpack_request(data)
    /\ op' = "unpack_request"
    /\ arg' = None
    /\ UNCHANGED sessionVars

\* unpack_client_decision(data), also with every sample token in a good frame
Unpack_Decision ==
    /\ \E data \in SampleBuffers("decision")
                     \cup {MAGIC_COOKIE \o <<MSG_PAYLOAD>> \o t : t \in SampleTokens} :
         /\ enc' = data
         /\ dec' = unpack_client_decision(data)
    /\ op' = "unpack_client_decision"
    /\ arg' = None
    /\ UNCHANGED sessionVars

\* unpack_server_update(data)
Unpack_Update ==
    /\ \E data \in SampleBuffers("update") :
         /\ enc' = data
         /\ dec' = unpack_server_update(data)
    /\ op' = "unpack_server_update"
    /\ arg' = None
    /\ UNCHANGED sessionVars

(* ------------------------------ system -------------------------------- *)
Next ==
    \/ Shutdown
    \/ ServerExit
    \/ \E c \in Conns :
        \/ Accept(c)
        \/ HC_ReadRequest(c)
        \/ HC_Deal(c)
        \/ HC_SendPlayer0(c)
        \/ HC_SendPlayer1(c)
        \/ HC_SendDealerUp(c)
        \/ HC_ReadDecision(c)
        \/ HC_SendHit(c)
        \/ HC_SendBust(c)
        \/ HC_Reveal(c)
        \/ HC_DealerLoop(c)
        \/ HC_SendDealerCard(c)
        \/ HC_SendDealerBust(c)
        \/ HC_Resolve(c)
        \/ HC_Finish(c)
        \/ HC_SendError(c)
        \/ PS_Connect(c)
        \/ PS_ConnectRefused(c)
        \/ PS_SendRequest(c)
        \/ PS_RecvPlayer1(c)
        \/ PS_RecvPlayer2(c)
        \/ PS_RecvDealerUp(c)
        \/ PS_SendDecision(c)
        \/ PS_RecvHit(c)
        \/ PS_RecvBustResult(c)
        \/ PS_RecvReveal(c)
        \/ PS_RecvDealerPhase(c)
        \/ PS_Close(c)
        \/ PS_RecvError(c)
        \/ PS_SendError(c)
        \/ Main_PromptRounds(c)
        \/ Main_Listen(c)
        \/ Tick(c)
        \/ LO_Recv(c)
        \/ LO_Timeout(c)
        \/ Main_Summary(c)
        \/ Main_Except(c)
        \/ Main_Loop(c)
        \/ SockFreed(c)
        \/ PlayerInterrupt(c)
        \/ BadFrameToDealer(c)
        \/ BadFrameToPlayer(c)

\* the steps of worker c (handle_client) and of player c (play_session)
DealerStep(c) ==
    \/ HC_ReadRequest(c)
    \/ HC_Deal(c)
    \/ HC_SendPlayer0(c)
    \/ HC_SendPlayer1(c)
    \/ HC_SendDealerUp(c)
    \/ HC_ReadDecision(c)
    \/ HC_SendHit(c)
    \/ HC_SendBust(c)
    \/ HC_Reveal(c)
    \/ HC_DealerLoop(c)
    \/ HC_SendDealerCard(c)
    \/ HC_SendDealerBust(c)
    \/ HC_Resolve(c)
    \/ HC_Finish(c)
    \/ HC_SendError(c)
PlayerStep(c) ==
    \/ PS_SendRequest(c)
    \/ PS_RecvPlayer1(c)
    \/ PS_RecvPlayer2(c)
    \/ PS_RecvDealerUp(c)
    \/ PS_SendDecision(c)
    \/ PS_RecvHit(c)
    \/ PS_RecvBustResult(c)
    \/ PS_RecvReveal(c)
    \/ PS_RecvDealerPhase(c)
    \/ PS_Close(c)
    \/ PS_RecvError(c)
    \/ PS_SendError(c)
\* a thread that can take a step takes it in the end
Fairness == \A c \in Conns : WF_vars(DealerStep(c)) /\ WF_vars(PlayerStep(c))

\* dealer and play_session alone: no step of client.py main
NextLive ==
    \/ Shutdown
    \/ ServerExit
    \/ \E c \in Conns :
        \/ Accept(c)
        \/ DealerStep(c)
        \/ PS_Connect(c)
        \/ PS_ConnectRefused(c)
        \/ PlayerStep(c)
        \/ PlayerInterrupt(c)
        \/ BadFrameToDealer(c)
        \/ BadFrameToPlayer(c)

\* listen_for_offer alone
NextListen ==
    \E c \in Conns :
        \/ LO_Call(c)
        \/ Tick(c)
        \/ LO_Recv(c)
        \/ LO_Timeout(c)

\* protocol.py alone
NextCodec ==
    \/ Codec_Offer
    \/ Codec_Request
    \/ Codec_Decision
    \/ Codec_Update
    \/ Unpack_Offer
    \/ Unpack_Request
    \/ Unpack_Decision
    \/ Unpack_Update

Spec == Init /\ [][Next]_vars
SpecConc == InitConc /\ [][Next]_vars
SpecDeck == InitDeck /\ [][Next]_vars
\* dealer and play_session with every worker thread and every play_session
\* scheduled again and again, the player answering every prompt
SpecLive == InitLive /\ [][NextLive]_vars /\ Fairness
SpecListen == InitListen /\ [][NextListen]_vars
SpecCodec == InitCodec /\ [][NextCodec]_vars

(* ------------------------ vocabulary of the claims -------------------- *)
\* the card values of the rules: Ace 1, Jack/Queen/King 10, else the rank
StdValue(rank) == IF rank = 1 THEN 1 ELSE IF rank \in {11, 12, 13} THEN 10 ELSE rank
RECURSIVE StdSum(_)
StdSum(cards) == IF cards = <<>> THEN 0 ELSE StdValue(cards[1][1]) + StdSum(Tail(cards))

Last(s) == s[Len(s)]
\* an Update as the player decodes it
CardUpdate(card) == <<RES_NOT_OVER, card[1], card[2]>>
TerminalUpdate(result) == <<result, 0, 0>>
IsCardUpdate(u) == u[1] = RES_NOT_OVER /\ u[2] \in 1..13 /\ u[3] \in 0..3
IsTerminalUpdate(u) == u[1] \in {RES_TIE, RES_LOSS, RES_WIN} /\ u[2] = 0 /\ u[3] = 0
\* hits the dealer read in the current round; whether the player has stood
Hits(c) == Cardinality({i \in 1..Len(decs[c]) : decs[c][i] = HITTT})
Stood(c) == decs[c] # <<>> /\ Last(decs[c]) = STAND
\* the current round has got its terminal Update
RoundOver(c) == log[c] # <<>> /\ Last(log[c])[1] # RES_NOT_OVER
\* no interrupt, no shutdown, no malformed frame on connection c
Undisturbed(c) ==
    /\ faults[c] = 0
    /\ mainPc = "accepting"
    /\ cpc[c] # "interrupted"
Consumed(c) == wins[c] + losses[c] + ties[c]

(* ------------------------------- claims ------------------------------- *)
\* C1: on an undisturbed connection whose player asked for r in 1..255 rounds,
\* the dealer sends no Update before it has read the Request, neither side
\* fails, and a side that has closed the stream has closed it after exactly r
\* terminal Updates were sent (dealer) and consumed (player).
C1_RoundsPlayed ==
    \A c \in Conns :
        /\ spc[c] \in {"idle", "read_req"} =>
               log[c] = <<>> /\ terms[c] = 0 /\ s2c[c] = <<>>
        /\ (Undisturbed(c) /\ crounds[c] \in 1..255) =>
               /\ terms[c] <= crounds[c]
               /\ Consumed(c) <= terms[c]
               /\ cerr[c] = "none"
               /\ ssock[c] = "closed" => spc[c] = "done" /\ terms[c] = crounds[c]
               /\ csock[c] = "closed" =>
                      /\ cpc[c] \in {"returned", "relisten"}
                      /\ terms[c] = crounds[c]
                      /\ Consumed(c) = crounds[c]
C1_Witness ==
    /\ Undisturbed(1) /\ crounds[1] = 2
    /\ ssock[1] = "closed" /\ csock[1] = "closed"
    /\ terms[1] = 2 /\ Consumed(1) = 2

\* C2: a round's first three Updates are the not-over frames of player card 1,
\* player card 2 and the dealer upcard, in this order; no Decision is read and
\* no fourth Update is sent before them; the holecard is sent only after a stand.
C2_InitialDeal ==
    \A c \in Conns :
        /\ Len(log[c]) >= 1 => log[c][1] = CardUpdate(player[c][1])
        /\ Len(log[c]) >= 2 => log[c][2] = CardUpdate(player[c][2])
        /\ Len(log[c]) >= 3 => log[c][3] = CardUpdate(dealer[c][1])
        /\ (spc[c] = "read_dec" \/ decs[c] # <<>>) => Len(log[c]) >= 3
        /\ decs[c] = <<>> => Len(log[c]) <= 3
        /\ \A i \in 1..Len(log[c]) :
               log[c][i] = CardUpdate(dealer[c][2]) => Stood(c)
C2_Witness ==
    /\ spc[1] = "read_dec" /\ decs[1] = <<>> /\ Len(log[1]) = 3
    /\ round_idx[1] = 2

\* C3: in the player turn the dealer answers the j-th hit with exactly one
\* not-over Update carrying the drawn card; while the player sum is <= 21 it
\* sends nothing else, and once a hit takes the sum over 21 the next frame is the
\* terminal (loss, 0, 0), the last of the round, with no dealer-phase frame.
C3_HitAndBust ==
    \A c \in Conns :
        LET h == Hits(c)
            busted == StdSum(player[c]) > 21
        IN /\ Len(player[c]) = (IF player[c] = <<>> THEN 0 ELSE 2 + h)
           /\ \A j \in 1..h :
                  Len(log[c]) >= 3 + j => log[c][3 + j] = CardUpdate(player[c][2 + j])
           /\ spc[c] = "send_hit" => Len(log[c]) = 3 + h - 1
           /\ spc[c] = "read_dec" => Len(log[c]) = 3 + h /\ ~busted
           /\ (~busted /\ ~Stood(c)) => Len(log[c]) <= 3 + h
           /\ busted =>
                  /\ Len(log[c]) <= 3 + h + 1
                  /\ Len(log[c]) = 3 + h + 1 => Last(log[c]) = TerminalUpdate(RES_LOSS)
                  /\ spc[c] = "send_loss" => Len(log[c]) = 3 + h
                  /\ spc[c] \in {"deal", "finish", "done"} => Len(log[c]) = 3 + h + 1
                  /\ ~Stood(c)
                  /\ Len(dealer[c]) = 2
                  /\ \A i \in 1..Len(log[c]) : log[c][i] # CardUpdate(dealer[c][2])
C3_Witness ==
    /\ player[1] = << <<10, 0>>, <<5, 1>>, <<9, 2>> >>
    /\ Len(log[1]) = 5
    /\ log[1][4] = <<RES_NOT_OVER, 9, 2>>
    /\ log[1][5] = <<RES_LOSS, 0, 0>>

\* C4: the dealer phase is entered only after a stand; its first frame is the
\* holecard; every later dealer card was drawn at a sum < 17 and sent as one
\* not-over Update; the loop is left for the comparison only at a sum of 17..21,
\* no round ends below 17, and a draw that takes the sum over 21 is followed at
\* once by the terminal (win, 0, 0).
C4_DealerTurn ==
    \A c \in Conns :
        LET d == dealer[c]
            base == 3 + Hits(c)
            sent == base + 1 + (Len(d) - 2)
        IN /\ (Len(d) > 2 \/ spc[c] \in {"send_hole", "dealer_loop", "send_dcard",
                                         "send_dbust", "resolve"}) => Stood(c)
           /\ Stood(c) =>
                /\ Len(log[c]) >= base + 1 => log[c][base + 1] = CardUpdate(d[2])
                /\ \A j \in 3..Len(d) :
                       /\ StdSum(SubSeq(d, 1, j - 1)) < 17
                       /\ Len(log[c]) >= base + j - 1 =>
                              log[c][base + j - 1] = CardUpdate(d[j])
                /\ spc[c] = "dealer_loop" => Len(log[c]) = sent
                /\ spc[c] = "resolve" => StdSum(d) \in 17..21 /\ Len(log[c]) = sent
                /\ RoundOver(c) => StdSum(d) >= 17
                /\ StdSum(d) > 21 =>
                       /\ Len(log[c]) <= sent + 1
                       /\ spc[c] = "send_dbust" => Len(log[c]) = sent
                       /\ Len(log[c]) = sent + 1 => Last(log[c]) = TerminalUpdate(RES_WIN)
                       /\ spc[c] \in {"deal", "finish", "done"} => Len(log[c]) = sent + 1
C4_Witness ==
    /\ dealer[1] = << <<9, 2>>, <<7, 1>>, <<12, 0>> >>
    /\ Len(log[1]) = 6
    /\ log[1][4] = <<RES_NOT_OVER, 7, 1>>
    /\ log[1][5] = <<RES_NOT_OVER, 12, 0>>
    /\ log[1][6] = <<RES_WIN, 0, 0>>

\* C5: a round that ends after a stand with the dealer at 21 or less has the
\* dealer at 17..21 and the player at 21 or less, and its only terminal Update
\* is win, loss or tie as the player sum is above, below or equal to the dealer
\* sum, the sums counting an Ace as 1 and Jack, Queen, King as 10.
C5_Resolution ==
    \A c \in Conns :
        (Stood(c) /\ RoundOver(c) /\ StdSum(dealer[c]) <= 21) =>
            LET p == StdSum(player[c])
                d == StdSum(dealer[c])
            IN /\ d >= 17
               /\ p <= 21
               /\ Last(log[c]) =
                      TerminalUpdate(IF p > d THEN RES_WIN
                                     ELSE IF p < d THEN RES_LOSS ELSE RES_TIE)
               /\ Cardinality({i \in 1..Len(log[c]) : log[c][i][1] # RES_NOT_OVER}) = 1
C5_Witness ==
    /\ player[1] = << <<10, 0>>, <<9, 1>> >>
    /\ dealer[1] = << <<6, 2>>, <<8, 3>>, <<6, 1>> >>
    /\ Last(decs[1]) = STAND
    /\ RoundOver(1)
    /\ Last(log[1]) = <<RES_LOSS, 0, 0>>

\* the Updates still in flight to the player, decoded frame by frame
InFlight(c) ==
    [k \in 1..(Len(s2c[c]) \div SERVER_PAYLOAD_SIZE) |->
        unpack_server_update(SubSeq(s2c[c], (k - 1) * SERVER_PAYLOAD_SIZE + 1,
                                    k * SERVER_PAYLOAD_SIZE))]

\* C6: every Update the dealer sends is a card frame (not-over, rank 1..13,
\* suit 0..3) or a terminal frame (tie, loss or win with rank 0 and suit 0); a
\* terminal frame is the last frame of its round, and a round the dealer has
\* left has exactly one.
C6_UpdateShape ==
    \A c \in Conns :
        /\ \A i \in 1..Len(log[c]) :
               /\ IsCardUpdate(log[c][i]) \/ IsTerminalUpdate(log[c][i])
               /\ i < Len(log[c]) => IsCardUpdate(log[c][i])
        /\ faults[c] = 0 =>
               \A k \in 1..Len(InFlight(c)) :
                   IsCardUpdate(InFlight(c)[k]) \/ IsTerminalUpdate(InFlight(c)[k])
        /\ (spc[c] \in {"finish", "done"} \/ (spc[c] = "deal" /\ round_idx[c] > 1)) =>
               /\ RoundOver(c)
               /\ IsTerminalUpdate(Last(log[c]))
        /\ spc[c] = "deal" => terms[c] = round_idx[c] - 1
        /\ spc[c] \in {"finish", "done"} => terms[c] = rounds[c]
        /\ spc[c] \in SendPcs \cup {"read_dec", "dealer_loop"} =>
               /\ terms[c] = round_idx[c] - 1
               /\ ~RoundOver(c)
C6_Witness ==
    /\ spc[1] = "done" /\ terms[1] = 2
    /\ Last(log[1]) = <<RES_TIE, 0, 0>>
    /\ Len(log[1]) = 7

\* C7: a malformed Decision or Request makes the dealer close the connection
\* (an invalid Request before any Update), and a malformed Update makes the
\* player close it.
C7_MalformedCloses ==
    \A c \in Conns :
        /\ spc[c] \in {"rejected", "bad_decision"} => ssock[c] = "closed"
        /\ spc[c] = "rejected" => log[c] = <<>> /\ terms[c] = 0
        /\ cerr[c] = "invalid" => csock[c] = "closed"

\* C8: the dealer plays max(1, min(255, n)) rounds for the round count n that
\* play_session was given (crounds is 0 when no call of play_session is
\* under way).
C8_RoundsClamped ==
    \A c \in Conns :
        (faults[c] = 0 /\ crounds[c] # 0) =>
            /\ rounds[c] # 0 => rounds[c] = Max(1, Min(255, crounds[c]))
            /\ spc[c] = "done" => terms[c] = Max(1, Min(255, crounds[c]))

\* C9: whenever the player sends a Decision, every Decision it sent before in
\* the round was a hit whose card it has read (3 + hits Updates read, sum <= 21),
\* nothing it sent is unread by the dealer, no Update is in flight and the
\* dealer is waiting for the Decision (or gone).
C9_DecisionLockstep ==
    [][\A c \in Conns :
          (Len(csent'[c]) > Len(csent[c])) =>
              /\ \A i \in 1..Len(csent[c]) : csent[c][i] = HITTT
              /\ cread[c] = 3 + Len(csent[c])
              /\ player_sum[c] <= 21
              /\ s2c[c] = <<>>
              /\ c2s[c] = <<>>
              /\ spc[c] \in {"read_dec", "killed"}]_vars
C9_Witness ==
    /\ csent[1] = <<HITTT, HITTT, STAND>>
    /\ cread[1] = 5
    /\ spc[1] = "read_dec"

\* what belongs to worker c: its control state, socket, locals, streams, frames
Worker(c) ==
    <<spc[c], ssock[c], rounds[c], round_idx[c], deck[c], player[c], dealer[c],
      c2s[c], s2c[c], log[c], decs[c], terms[c]>>
Failed(c) == spc[c] \in {"rejected", "bad_decision", "conn_error", "crashed"}

\* C10: a step in which a worker fails leaves main where it was (an accept
\* loop that runs keeps running), and any step of one connection (its failure
\* included) leaves the frames, deck, hands and round count of every other
\* worker as they were.
C10_WorkerIsolation ==
    [][\A c \in Conns :
          /\ (~Failed(c) /\ Failed(c)') => mainPc' = mainPc
          /\ (Worker(c)' # Worker(c) /\ mainPc' = mainPc) =>
                 \A d \in Conns \ {c} : Worker(d)' = Worker(d)]_vars
C10_Witness ==
    /\ mode = "conc"
    /\ spc[1] = "bad_decision"
    /\ mainPc = "accepting"
    /\ spc[2] = "done" /\ terms[2] = 1 /\ Consumed(2) = 1

\* the fields of an Offer datagram, read off its bytes
IsOffer(data) ==
    /\ Len(data) >= 39
    /\ <<data[1], data[2], data[3], data[4]>> = <<171, 205, 220, 186>>
    /\ data[5] = 2
OfferPort(data) == data[6] * 256 + data[7]
RECURSIVE UpToNul(_)
UpToNul(b) == IF b = <<>> \/ b[1] = 0 THEN <<>> ELSE <<b[1]>> \o UpToNul(Tail(b))
OfferName(data) == UpToNul(SubSeq(data, 8, 39))

\* C11: a listen_for_offer without timeout leaves its wait only by returning,
\* and only on receiving a datagram that is an Offer: every datagram received
\* before was none and was dropped with the socket left open, and the value
\* returned is the sender, port and name of that first Offer, the socket closed.
C11_BlockingListen ==
    [][\A c \in Conns :
          (lpc[c] = "listening" /\ ltimeout[c] = 0) =>
              /\ lpc'[c] \in {"listening", "returned"}
              /\ \A i \in 1..Len(heard[c]) : ~IsOffer(heard[c][i][2])
              /\ (lpc'[c] = "listening" /\ heard'[c] # heard[c]) =>
                     /\ ~IsOffer(Last(heard'[c])[2])
                     /\ usock'[c] = "open"
                     /\ lret'[c] = None
              /\ lpc'[c] = "returned" =>
                     /\ Len(heard'[c]) = 1
                     /\ IsOffer(heard'[c][1][2])
                     /\ lret'[c] = <<heard'[c][1][1], OfferPort(heard'[c][1][2]),
                                     OfferName(heard'[c][1][2])>>
                     /\ usock'[c] = "closed"]_vars
C11_Witness ==
    /\ ltimeout[1] = 0
    /\ lpc[1] = "returned"
    /\ usock[1] = "closed"
    /\ lret[1] = <<OtherIp, 65535, Name32>>
    /\ Len(heard[1][1][2]) = 42

\* C12: a listen_for_offer with a timeout T > 0 is not waiting any more once
\* more than T has passed since the call.
C12_TimeoutFails ==
    \A c \in Conns :
        (ltimeout[c] > 0 /\ lpc[c] = "listening") => elapsed[c] <= ltimeout[c]

\* C13: main ends only when interrupted: it never ends on an error, and a
\* session error leaves it on the way back to discovery.
C13_RunsUntilInterrupted ==
    \A c \in Conns :
        entry[c] = "main" =>
            /\ cpc[c] # "terminated"
            /\ cerr[c] # "none" => cpc[c] \in {"raised", "relisten", "interrupted"}

\* what the claims call a frame's fixed length, cookie and type
SizeOfKind(kind) ==
    IF kind = "offer" THEN 39 ELSE IF kind = "request" THEN 38
    ELSE IF kind = "decision" THEN 10 ELSE 9
TypeOfKind(kind) ==
    IF kind = "offer" THEN 2 ELSE IF kind = "request" THEN 3 ELSE 4
KindOfUnpack(f) ==
    IF f = "unpack_offer" THEN "offer"
    ELSE IF f = "unpack_request" THEN "request"
    ELSE IF f = "unpack_client_decision" THEN "decision" ELSE "update"
BadHeader(data, kind) ==
    \/ Len(data) < SizeOfKind(kind)
    \/ <<data[1], data[2], data[3], data[4]>> # <<171, 205, 220, 186>>
    \/ data[5] # TypeOfKind(kind)
NoNul(name) == \A i \in 1..Len(name) : name[i] # 0

\* C16 as claimed: unpacking the packed frame gives the frame's fields, and
\* the packed frame has its kind's length, for every valid frame (any name of
\* at most 32 bytes).
C16_RoundTripAnyName ==
    op \in {"offer", "request", "decision", "update"} =>
        /\ Len(enc) = SizeOfKind(op)
        /\ dec = arg

\* C16 (amended): the same for the frames whose name holds no NUL byte.
C16_RoundTrip ==
    (/\ op \in {"offer", "request", "decision", "update"}
     /\ op \in {"offer", "request"} => NoNul(arg[2])) =>
        /\ Len(enc) = SizeOfKind(op)
        /\ dec = arg
C16_Witness ==
    /\ op = "offer"
    /\ arg = <<65535, Name32>>
    /\ Len(enc) = 39
    /\ dec = <<65535, Name32>>

\* C17: an unpack gives None for a buffer shorter than its kind's size or with
\* a wrong cookie or type byte, and unpack_client_decision gives None for a
\* token that is neither of the two canonical ones.
C17_UnpackRejects ==
    op \in {"unpack_offer", "unpack_request", "unpack_client_decision",
            "unpack_server_update"} =>
        /\ BadHeader(enc, KindOfUnpack(op)) => dec = None
        /\ (/\ op = "unpack_client_decision"
            /\ Len(enc) >= 10
            /\ SubSeq(enc, 6, 10) \notin {<<72, 105, 116, 116, 116>>,
                                          <<83, 116, 97, 110, 100>>}) => dec = None
        /\ (op # "unpack_client_decision" /\ ~BadHeader(enc, KindOfUnpack(op))) =>
               dec # None
C17_Witness ==
    /\ op = "unpack_client_decision"
    /\ enc = <<171, 205, 220, 186, 4, 83, 116, 97, 110, 228>>
    /\ dec = None

\* the 52 cards, and the cards of connection c's round wherever they are
FullDeck == {<<rank, suit>> : rank \in 1..13, suit \in 0..3}
RoundCards(c) == deck[c] \o player[c] \o dealer[c]

\* C14: in every round the deck and the two hands together hold each of the
\* 52 (rank, suit) pairs exactly once, so no card is dealt twice, and every
\* round is dealt from a deck of 52 (none is carried over).
C14_FreshDeck ==
    \A c \in Conns :
        /\ player[c] = <<>> => deck[c] = <<>> /\ dealer[c] = <<>>
        /\ player[c] # <<>> =>
               /\ Len(RoundCards(c)) = 52
               /\ Range(RoundCards(c)) = FullDeck
               /\ Range(player[c]) \cap Range(dealer[c]) = {}
        /\ spc[c] = "send_p0" =>
               Len(deck[c]) = 48 /\ Len(player[c]) = 2 /\ Len(dealer[c]) = 2
C14_Witness ==
    /\ round_idx[1] = 2
    /\ Len(deck[1]) = 46
    /\ Len(player[1]) = 3 /\ Len(dealer[1]) = 3

\* C15: no worker ends on a draw from an empty deck; a round's hands never
\* hold 52 cards, the deck is never empty.
C15_NoUnderflow ==
    \A c \in Conns :
        /\ spc[c] # "crashed"
        /\ player[c] # <<>> =>
               /\ Len(player[c]) + Len(dealer[c]) < 52
               /\ deck[c] # <<>>
C15_Witness ==
    /\ Len(player[1]) = 11 /\ StdSum(player[1]) = 21
    /\ Len(dealer[1]) = 5
    /\ Len(deck[1]) = 36
    /\ RoundOver(1)

\* how many of the first n results the dealer declared are res
Declared(c, n, res) == Cardinality({i \in 1..n : results[c][i] = res})

\* C18: the rounds the player has counted are the first rounds the dealer
\* declared, and each counter is the number of them the dealer declared with
\* that result; a session that completed has counted every one of its rounds.
C18_CountersFollowDealer ==
    \A c \in Conns :
        LET n == Consumed(c)
        IN /\ n <= Len(results[c])
           /\ wins[c] = Declared(c, n, RES_WIN)
           /\ losses[c] = Declared(c, n, RES_LOSS)
           /\ ties[c] = Declared(c, n, RES_TIE)
           /\ (cpc[c] \in {"close", "returned"} \/ (cpc[c] = "relisten" /\ cerr[c] = "none")) =>
                  /\ n = crounds[c]
                  /\ wins[c] + losses[c] + ties[c] = crounds[c]
C18_Witness ==
    /\ cpc[1] = "returned" /\ crounds[1] = 2
    /\ results[1] = <<RES_WIN, RES_LOSS>>
    /\ wins[1] = 1 /\ losses[1] = 1 /\ ties[1] = 0

\* the player is inside a round, and it is the round the dealer is in
InRoundPcs == RecvPcs \cup {"decide"}
SameRound(c) ==
    /\ cpc[c] \in InRoundPcs
    /\ r[c] = round_idx[c]
    /\ spc[c] \notin {"idle", "read_req", "deal"}
\* how many cards of its own hand the player has read in the round
PlayerCardsRead(c) ==
    Min(cread[c], 2) + Max(0, Min(cread[c], 3 + Hits(c)) - 3)
\* both peers wait in read_exact and no frame is on its way to either
BothBlocked(c) ==
    /\ csock[c] = "open" /\ ssock[c] = "open"
    /\ cpc[c] \in RecvPcs
    /\ spc[c] \in {"read_req", "read_dec"}
    /\ s2c[c] = <<>> /\ c2s[c] = <<>>

\* C19: on an undisturbed connection the player is never more than one round
\* behind a dealer that has rounds left to play; in the
\* same round the player's sum is the dealer's sum of the cards of the player
\* hand it has read, the Updates in flight are the round's unread ones and
\* both sides are on the same side of the bust test; the two are never both
\* blocked reading with nothing in flight; the player starts a round, and
\* closes, with no Update of an earlier round unread.
C19_Lockstep ==
    \A c \in Conns :
        Undisturbed(c) =>
            /\ ~BothBlocked(c)
            /\ cpc[c] \in InRoundPcs =>
                   \/ spc[c] \in {"idle", "read_req", "finish", "done"}
                   \/ r[c] = round_idx[c]
                   \/ r[c] + 1 = round_idx[c] /\ cread[c] > 0
            /\ SameRound(c) =>
                   /\ PlayerCardsRead(c) <= Len(player[c])
                   /\ player_sum[c] = sum_cards(SubSeq(player[c], 1, PlayerCardsRead(c)))
                   /\ Len(s2c[c]) = (Len(log[c]) - cread[c]) * SERVER_PAYLOAD_SIZE
                   /\ cpc[c] = "recv_bust" =>
                          Bust(sum_cards(player[c])) /\ player_sum[c] = sum_cards(player[c])
                   /\ cpc[c] \in {"recv_hole", "recv_dealer"} =>
                          ~Bust(sum_cards(player[c])) /\ player_sum[c] = sum_cards(player[c])
                   /\ cpc[c] = "decide" =>
                          spc[c] = "read_dec" /\ player_sum[c] = sum_cards(player[c])
            /\ (cpc[c] \in InRoundPcs /\ cread[c] = 0 /\ spc[c] \in {"idle", "read_req", "deal"}) =>
                   s2c[c] = <<>>
            /\ cpc[c] \in {"close", "returned", "relisten"} =>
                   s2c[c] = <<>> /\ spc[c] \in {"finish", "done"}
C19_Witness ==
    /\ Undisturbed(1) /\ crounds[1] = 2
    /\ r[1] = 2 /\ round_idx[1] = 2
    /\ cpc[1] = "recv_bust" /\ spc[1] = "send_loss"
    /\ player_sum[1] > 21 /\ cread[1] = 5

\* a step draws a card into the hand
Draws(hand, hand2) == Len(hand) >= 2 /\ Len(hand2) = Len(hand) + 1

\* C20: on a connection that stays undisturbed, a worker that has started
\* ends in "done" with its connection closed, whatever the number of rounds,
\* and every round that was dealt gets its terminal Update; every hit is
\* drawn at a player sum of at most 21 and every dealer card at a dealer sum
\* below 17, and each draw makes the sum strictly larger.
C20_Terminates ==
    /\ \A c \in Conns :
           (spc[c] = "read_req") ~>
               \/ spc[c] = "done" /\ ssock[c] = "closed"
               \/ ~Undisturbed(c)
    /\ \A c \in Conns :
           (spc[c] = "send_p0") ~> (RoundOver(c) \/ ~Undisturbed(c))
    /\ [][\A c \in Conns :
             /\ Draws(player[c], player'[c]) =>
                    /\ sum_cards(player[c]) <= 21
                    /\ sum_cards(player'[c]) > sum_cards(player[c])
             /\ Draws(dealer[c], dealer'[c]) =>
                    /\ sum_cards(dealer[c]) < 17
                    /\ sum_cards(dealer'[c]) > sum_cards(dealer[c])]_vars
C20_Witness ==
    /\ Undisturbed(1)
    /\ spc[1] = "done" /\ ssock[1] = "closed"
    /\ rounds[1] = LiveRounds /\ terms[1] = LiveRounds
    /\ Len(player[1]) = 4 /\ Len(dealer[1]) = 3
    /\ Len(results[1]) = LiveRounds /\ Last(results[1]) = RES_WIN

====
